---- MODULE Spec2Model ----
(***************************************************************************)
(* A model of the lox-rs lexer (src/src/lexer.rs).                         *)
(*                                                                         *)
(* A buffer is a sequence of characters; every character has a UTF-8 byte  *)
(* length, so the two ways the source addresses the buffer are kept apart: *)
(*   - byte offsets   (&buffer[position..], take_all's index, len_utf8),   *)
(*   - char indices   (buffer.chars().skip(position), chars().nth(n)).     *)
(* A character is a one-character string; the non-ASCII characters are     *)
(* named by their code point ("U+E9" is e-acute, two bytes in UTF-8).      *)
(***************************************************************************)
EXTENDS Integers, Sequences, FiniteSets

VARIABLES buffer, position, last, trace, other, loader

\* buffer, position: the fields of the scanner; last, trace: what its calls of
\* next returned. other: a second scanner over the same text (a clone), when
\* there is one. loader: the progress of Lexer::from_file, when the scanner is
\* built from a file.
vars == <<buffer, position, last, trace, other, loader>>

\* ------------------------------------------------------------------ bounds

\* Longest buffer drawn exhaustively from Alphabet.
MaxLen == 3

\* Number of calls of Lexer::next followed on one scanner.
MaxCalls == 5

\* Longest buffer drawn exhaustively when two scanners run over it, and the
\* number of calls followed on the second one.
MaxCloneLen == 2

MaxCloneCalls == 3

\* Longest file drawn exhaustively for Lexer::from_file.
MaxFileLen == 2

\* --------------------------------------------------------------- characters

AsciiLower ==
    {"a","b","c","d","e","f","g","h","i","j","k","l","m",
     "n","o","p","q","r","s","t","u","v","w","x","y","z"}

AsciiUpper ==
    {"A","B","C","D","E","F","G","H","I","J","K","L","M",
     "N","O","P","Q","R","S","T","U","V","W","X","Y","Z"}

\* char::is_digit(10): the ASCII decimal digits only.
is_digit == {"0","1","2","3","4","5","6","7","8","9"}

\* char::is_alphabetic: the Unicode Alphabetic property ("U+E9" has it, '_' has not).
is_alphabetic == AsciiLower \cup AsciiUpper \cup {"U+E9"}

\* char::is_alphanumeric: alphabetic or numeric ("U+663", ARABIC-INDIC DIGIT
\* THREE, is numeric but no is_digit(10) digit).
is_alphanumeric == is_alphabetic \cup is_digit \cup {"U+663"}

\* char::is_whitespace: the Unicode White_Space property ("U+A0" is NO-BREAK SPACE).
is_whitespace == {" ", "\n", "\t", "\r", "U+A0"}

\* Characters none of the classes above holds: punctuation, operators, the
\* quote, the underscore, and characters no rule of the lexer accepts.
Punctuation == {"(", ")", "{", "}", ",", ".", "-", "+", ";", "/", "*"}

Ambiguous == {"!", "=", ">", "<"}

Others == {"\"", "_", "#", "@", "U+20AC"}

Chars == is_alphanumeric \cup is_whitespace \cup Punctuation \cup Ambiguous \cup Others

\* char::len_utf8
len_utf8(ch) ==
    CASE ch \in {"U+E9", "U+A0", "U+663"} -> 2
      [] ch = "U+20AC" -> 3
      [] OTHER -> 1

\* str::len: the length in bytes.
RECURSIVE ByteLen(_)
ByteLen(s) == IF s = <<>> THEN 0 ELSE len_utf8(Head(s)) + ByteLen(Tail(s))

\* The byte offset at which the i-th character (1-based) starts.
ByteOffset(s, i) == ByteLen(SubSeq(s, 1, i - 1))

\* str::is_char_boundary
is_char_boundary(s, b) == \E i \in 1..(Len(s) + 1) : ByteOffset(s, i) = b

\* &s[b..]: defined when b is a char boundary (else the slice panics).
SliceFrom(s, b) ==
    LET i == CHOOSE i \in 1..(Len(s) + 1) : ByteOffset(s, i) = b
    IN  SubSeq(s, i, Len(s))

\* s.chars().nth(n): the n-th character (0-based), counted in characters.
NoChar == "<none>"

chars_nth(s, n) == IF n + 1 <= Len(s) THEN s[n + 1] ELSE NoChar

\* ------------------------------------------------------------------- tokens

\* A TokenKind value: the variant's name and its payload (the text of an
\* Identifier or a String; the value of a Number, written as its decimal numeral
\* without leading zeros; empty for every other variant).
Token(kind, text) == [kind |-> kind, text |-> text]

NoToken == Token("", <<>>)

\* anyhow::Result<Option<(TokenKind, usize)>>, and a panic raised while computing it.
OkSome(token, length) == [tag |-> "Some", token |-> token, length |-> length, err |-> ""]

OkNone == [tag |-> "None", token |-> NoToken, length |-> 0, err |-> ""]

Err(msg) == [tag |-> "Err", token |-> NoToken, length |-> 0, err |-> msg]

Panic(msg) == [tag |-> "Panic", token |-> NoToken, length |-> 0, err |-> msg]

\* The panic of a str slice whose index is out of range or inside a character.
SlicePanic == "byte index is out of bounds or not a char boundary"

\* ----------------------------------------------------------------- take_all

\* The number of leading characters of data the matcher holds for.
MatchedChars(data, matcher) ==
    LET stops == {i \in 1..Len(data) : data[i] \notin matcher}
    IN  IF stops = {} THEN Len(data)
        ELSE (CHOOSE i \in stops : \A j \in stops : i <= j) - 1

\* take_all as it would be if its loop returned after the first matching
\* character.
take_all_nonmaximal(data, matcher) ==
    LET n == IF MatchedChars(data, matcher) > 1 THEN 1 ELSE MatchedChars(data, matcher)
    IN  <<SubSeq(data, 1, n), ByteLen(SubSeq(data, 1, n))>>

\* take_all(data, matcher): the maximal prefix of data whose characters all
\* satisfy the matcher (given as the set of characters it holds for), and the
\* prefix's length in bytes.
take_all(data, matcher) ==
    LET n == MatchedChars(data, matcher)
    IN  <<SubSeq(data, 1, n), ByteLen(SubSeq(data, 1, n))>>

\* Lexer::take_all_next: take_all on &self.buffer[self.position..]
\* (the caller has checked that the slice does not panic).
take_all_next(buf, pos, matcher) == take_all(SliceFrom(buf, pos), matcher)

\* Whether &buf[from..] panics.
SliceFromPanics(buf, from) == ~is_char_boundary(buf, from)

\* Whether &buf[from..to] panics (from <= to here).
SliceRangePanics(buf, from, to) ==
    ~is_char_boundary(buf, from) \/ ~is_char_boundary(buf, to)

\* Lexer::skip_whitespaces
skip_whitespaces(buf, pos) == take_all_next(buf, pos, is_whitespace)[2]

\* --------------------------------------------------------------- is_keyword

keywords ==
    { <<(<<"a","n","d">>), "And">>,
      <<(<<"c","l","a","s","s">>), "Class">>,
      <<(<<"e","l","s","e">>), "Else">>,
      <<(<<"f","a","l","s","e">>), "False">>,
      <<(<<"f","u","n">>), "Fun">>,
      <<(<<"f","o","r">>), "For">>,
      <<(<<"i","f">>), "If">>,
      <<(<<"n","i","l">>), "Nil">>,
      <<(<<"o","r">>), "Or">>,
      <<(<<"p","r","i","n","t">>), "Print">>,
      <<(<<"r","e","t","u","r","n">>), "Return">>,
      <<(<<"s","u","p","e","r">>), "Super">>,
      <<(<<"t","h","i","s">>), "This">>,
      <<(<<"t","r","u","e">>), "True">>,
      <<(<<"v","a","r">>), "Var">>,
      <<(<<"w","h","i","l","e">>), "While">> }

\* is_keyword(data): Some(variant) when data is a key of the table, else None
\* (written NoToken).
is_keyword(data) ==
    IF \E kw \in keywords : kw[1] = data
    THEN Token((CHOOSE kw \in keywords : kw[1] = data)[2], <<>>)
    ELSE NoToken

\* ------------------------------------------------------------- str::parse

\* i64::MAX, 2^63 - 1, as a decimal numeral.
I64Max ==
    <<"9","2","2","3","3","7","2","0","3","6","8","5","4","7","7","5","8","0","7">>

DigitValue(ch) ==
    CASE ch = "0" -> 0 [] ch = "1" -> 1 [] ch = "2" -> 2 [] ch = "3" -> 3
      [] ch = "4" -> 4 [] ch = "5" -> 5 [] ch = "6" -> 6 [] ch = "7" -> 7
      [] ch = "8" -> 8 [] ch = "9" -> 9

\* a > b for two decimal numerals without leading zeros.
NumeralGreater(a, b) ==
    \/ Len(a) > Len(b)
    \/ /\ Len(a) = Len(b)
       /\ \E i \in 1..Len(a) :
            /\ DigitValue(a[i]) > DigitValue(b[i])
            /\ \A j \in 1..(i - 1) : a[j] = b[j]

\* acc * 10 + digit on numerals.
MulAdd(acc, digit) == IF acc = <<"0">> THEN <<digit>> ELSE Append(acc, digit)

\* The digit loop of i64::from_str_radix(src, 10): the accumulator is multiplied
\* by ten and the digit added, each checked; a result above i64::MAX is PosOverflow.
RECURSIVE from_str_radix(_, _)
from_str_radix(digits, acc) ==
    IF digits = <<>> THEN [ok |-> TRUE, value |-> acc, err |-> ""]
    ELSE IF Head(digits) \notin is_digit
         THEN [ok |-> FALSE, value |-> <<>>, err |-> "ParseIntError(InvalidDigit)"]
    ELSE IF NumeralGreater(MulAdd(acc, Head(digits)), I64Max)
         THEN [ok |-> FALSE, value |-> <<>>, err |-> "ParseIntError(PosOverflow)"]
    ELSE from_str_radix(Tail(digits), MulAdd(acc, Head(digits)))

\* number.parse::<i64>()
parse_i64(src) ==
    IF src = <<>> THEN [ok |-> FALSE, value |-> <<>>, err |-> "ParseIntError(Empty)"]
    ELSE from_str_radix(src, <<"0">>)

\* ------------------------------------------------------------ sub-scanners

\* Lexer::tokenize_next_identifier
tokenize_next_identifier(buf, pos) ==
    LET taken == take_all_next(buf, pos, is_alphanumeric)
    IN  OkSome(Token("Identifier", taken[1]), taken[2])

\* tokenize_next_string as it would be if the consumed length counted one quote
\* only.
tokenize_next_string_short(buf, pos) ==
    IF SliceFromPanics(buf, pos + 1) THEN Panic(SlicePanic)
    ELSE LET taken == take_all(SliceFrom(buf, pos + 1), Chars \ {"\""})
         IN  IF chars_nth(buf, pos + taken[2] + 1) = "\""
             THEN OkSome(Token("String", taken[1]), taken[2] + 1)
             ELSE Err("Unmatched string quotes")

\* Lexer::tokenize_next_string. The run is taken from the byte offset
\* position + 1; the closing quote is looked up with chars().nth, which counts
\* characters, at position + length + 1.
tokenize_next_string(buf, pos) ==
    IF SliceFromPanics(buf, pos + 1) THEN Panic(SlicePanic)
    ELSE LET taken == take_all(SliceFrom(buf, pos + 1), Chars \ {"\""})
         IN  IF chars_nth(buf, pos + taken[2] + 1) = "\""
             THEN OkSome(Token("String", taken[1]), taken[2] + 2)
             ELSE Err("Unmatched string quotes")

\* Lexer::tokenize_next_number
tokenize_next_number(buf, pos) ==
    LET taken  == take_all_next(buf, pos, is_digit)
        parsed == parse_i64(taken[1])
    IN  IF parsed.ok THEN OkSome(Token("Number", parsed.value), taken[2])
        ELSE Err(parsed.err)

\* ------------------------------------------------------------ tokenize_next

\* The single-character arms of the match.
SingleKind(ch) ==
    CASE ch = "(" -> "LeftParen"  [] ch = ")" -> "RightParen"
      [] ch = "{" -> "LeftBrace"  [] ch = "}" -> "RightBrace"
      [] ch = "," -> "Comma"      [] ch = "." -> "Dot"
      [] ch = "-" -> "Minus"      [] ch = "+" -> "Plus"
      [] ch = ";" -> "SemiColon"  [] ch = "/" -> "Slash"
      [] ch = "*" -> "Star"

\* The one-or-two character arms as they would be without the test of the
\* lookahead.
one_or_two_always_long(lookahead, long, short) == OkSome(Token(long, <<>>), 2)

\* The one-or-two character arms: the variant and the consumed length depend on
\* whether the lookahead is Some('=').
one_or_two(lookahead, long, short) ==
    IF lookahead = "=" THEN OkSome(Token(long, <<>>), 2)
    ELSE OkSome(Token(short, <<>>), 1)

\* The arm `ch @ '_' | ch if ch.is_alphabetic()`: its body.
identifier_or_keyword(buf, pos) ==
    LET ident == tokenize_next_identifier(buf, pos)
        keyword == is_keyword(ident.token.text)
    IN  IF keyword # NoToken THEN OkSome(keyword, ident.length) ELSE ident

\* The length in bytes of the diagnostic snippet of the catch-all arm.
SnippetLen == 10

\* The catch-all arm as it would be if the snippet were cut at the end of the
\* buffer: the slice is then always in range.
unknown_token_clamped(buf, pos) == Err("Unknown token")

\* The catch-all arm: the message is formatted from
\* &self.buffer[self.position..self.position + 10], which panics when that
\* range is not inside the buffer on char boundaries.
unknown_token(buf, pos) ==
    IF SliceRangePanics(buf, pos, pos + SnippetLen) THEN Panic(SlicePanic)
    ELSE Err("Unknown token")

\* Lexer::tokenize_next. current and lookahead are the characters number
\* position and position + 1 of the buffer, counted in characters
\* (buffer.chars().skip(self.position)).
tokenize_next(buf, pos) ==
    LET current   == chars_nth(buf, pos)
        lookahead == chars_nth(buf, pos + 1)
    IN  IF current = NoChar THEN OkNone
        ELSE IF current \in Punctuation THEN OkSome(Token(SingleKind(current), <<>>), 1)
        ELSE IF current = "!" THEN one_or_two(lookahead, "BangEqual", "Bang")
        ELSE IF current = "=" THEN one_or_two(lookahead, "EqualEqual", "Equal")
        ELSE IF current = ">" THEN one_or_two(lookahead, "GreaterEqual", "Greater")
        ELSE IF current = "<" THEN one_or_two(lookahead, "LessEqual", "Less")
        ELSE IF current = "\"" THEN tokenize_next_string(buf, pos)
        \* both alternatives of the pattern are under the guard
        ELSE IF (current = "_" \/ TRUE) /\ current \in is_alphabetic
             THEN identifier_or_keyword(buf, pos)
        ELSE IF current \in is_digit THEN tokenize_next_number(buf, pos)
        ELSE unknown_token(buf, pos)

\* ------------------------------------------------------------ Iterator::next

\* next as it would be if a failing call skipped the offending character, so
\* that the following call resumes after it.
next_step_resumes(buf, pos) ==
    IF SliceFromPanics(buf, pos)
    THEN [start |-> pos, after |-> pos, tag |-> "Panic", token |-> NoToken,
          err |-> SlicePanic]
    ELSE LET start == pos + skip_whitespaces(buf, pos)
             res   == tokenize_next(buf, start)
         IN  IF res.tag = "Some"
             THEN [start |-> start, after |-> start + res.length, tag |-> "Some",
                   token |-> res.token, err |-> ""]
             ELSE IF res.tag = "None"
             THEN [start |-> start, after |-> start, tag |-> "None",
                   token |-> NoToken, err |-> ""]
             ELSE [start |-> start,
                   after |-> IF start < ByteLen(buf) THEN start + 1 ELSE start,
                   tag |-> "Panic", token |-> NoToken, err |-> res.err]

\* next as it would be if it dropped the failure (`.ok().flatten()` in place of
\* `.unwrap().take()`): a failing classification ends the stream.
next_step_swallows(buf, pos) ==
    IF SliceFromPanics(buf, pos)
    THEN [start |-> pos, after |-> pos, tag |-> "Panic", token |-> NoToken,
          err |-> SlicePanic]
    ELSE LET start == pos + skip_whitespaces(buf, pos)
             res   == tokenize_next(buf, start)
         IN  IF res.tag = "Some"
             THEN [start |-> start, after |-> start + res.length, tag |-> "Some",
                   token |-> res.token, err |-> ""]
             ELSE [start |-> start, after |-> start, tag |-> "None",
                   token |-> NoToken, err |-> ""]

\* What one call of next does to a scanner at byte offset pos: the offset where
\* classification starts (after the whitespace), the offset the call leaves,
\* and what the caller gets: Some(token), None, or a panic (of a slice, or of
\* the unwrap of a scanning failure).
next_step(buf, pos) ==
    IF SliceFromPanics(buf, pos)
    THEN [start |-> pos, after |-> pos, tag |-> "Panic", token |-> NoToken,
          err |-> SlicePanic]
    ELSE LET start == pos + skip_whitespaces(buf, pos)
             res   == tokenize_next(buf, start)
         IN  IF res.tag = "Some"
             THEN [start |-> start, after |-> start + res.length, tag |-> "Some",
                   token |-> res.token, err |-> ""]
             ELSE IF res.tag = "None"
             THEN [start |-> start, after |-> start, tag |-> "None",
                   token |-> NoToken, err |-> ""]
             ELSE [start |-> start, after |-> start, tag |-> "Panic",
                   token |-> NoToken, err |-> res.err]

\* ------------------------------------------------------------ source texts

\* The characters the exhaustively drawn buffers are made of: one or two of
\* every class the lexer tells apart, in one, two and three bytes.
Alphabet == {"(", "!", "=", "\"", "_", "a", "1", " ", "#", "U+E9", "U+20AC", "U+A0"}

ShortTexts == UNION {[1..n -> Alphabet] : n \in 0..MaxLen}

\* tests/lox/hello.lox as tests/lexer.rs expects it to scan.
Hello ==
    <<"p","r","i","n","t"," ","\"","H","e","l","l","o",","," ","W","o","r","l","d","!","\"",";">>

HelloTexts ==
    { Hello, Hello \o <<"\n">>, <<" ">> \o Hello, <<"\n", " ">> \o Hello \o <<" ", "\n">> }

KeywordTexts ==
    {kw[1] : kw \in keywords}
    \cup { <<"f","u","n","n","y">>, <<"F","u","n">>, <<"f","u","n","1">>,
           <<"U+E9","U+E9"," ","i","f">>, <<"f","o","o","_","b","a","r">> }

NumberTexts ==
    { <<"1","2","3">>,
      I64Max,
      <<"9","2","2","3","3","7","2","0","3","6","8","5","4","7","7","5","8","0","8">>,
      <<"1","2","3","4","5","6","7","8","9","0","1","2","3","4","5","6","7","8","9","0">>,
      <<"0","0","0","0","0","0","0","0","0","0","0","0","0","0","0","0","0","0","0","0","0","7">>,
      <<"U+E9"," ","1","2","(">> }

ProgramTexts ==
    { <<"x","=","(","1","+","2",")","*","3",";">>,
      <<"v","a","r"," ","x"," ","="," ","\"","h","i"," ","t","h","e","r","e","\"",";">>,
      <<"\"","a","b","c">>,
      <<"\"","U+E9","\""," ","o","k">>,
      <<"\"","a","U+20AC","\""," ","!","="," ","b">>,
      <<"a"," ","#"," ","b","c","d","e","f","g","h","i","j">>,
      <<"a"," ","#"," ","b","c","d","e","f","g","h">>,
      <<"a"," ","#"," ","b","c","d","e","f","g","h","i">>,
      <<"#","1","2","3","4","5","6","7","8","U+E9">>,
      <<"a",">","=","b","<","c","!","=","=","d">> }

Texts == ShortTexts \cup HelloTexts \cup KeywordTexts \cup NumberTexts \cup ProgramTexts

\* ------------------------------------------------------------ state machine

\* No second scanner has been made.
NoScanner == [exists |-> FALSE, position |-> 0, born |-> 0, trace |-> <<>>]

\* The scanner was not built by Lexer::from_file.
NoLoader == [pc |-> "unused", file |-> <<>>, source_len |-> 0, got |-> 0]

\* Lexer::new(buffer): the cursor is 0; nothing has been asked of the scanner.
Init ==
    /\ buffer \in Texts
    /\ position = 0
    /\ last = [tag |-> "New", token |-> NoToken, err |-> ""]
    /\ trace = <<>>
    /\ other = NoScanner
    /\ loader = NoLoader

\* One call of <Lexer as Iterator>::next. trace records, per call, the cursor
\* before the call, after the whitespace, and after the call, with the result.
next ==
    /\ last.tag # "NoScanner"
    /\ Len(trace) < MaxCalls
    /\ LET step == next_step(buffer, position)
       IN  /\ position' = step.after
           /\ last' = [tag |-> step.tag, token |-> step.token, err |-> step.err]
           /\ trace' = Append(trace, [before |-> position, start |-> step.start,
                                      after |-> step.after, tag |-> step.tag,
                                      token |-> step.token, err |-> step.err])
    /\ UNCHANGED <<buffer, other, loader>>

Next == next

Spec == Init /\ [][Next]_vars

\* ------------------------------------------------------------ two scanners

CloneTexts ==
    UNION {[1..n -> Alphabet] : n \in 0..MaxCloneLen} \cup HelloTexts \cup ProgramTexts

InitClone ==
    /\ buffer \in CloneTexts
    /\ position = 0
    /\ last = [tag |-> "New", token |-> NoToken, err |-> ""]
    /\ trace = <<>>
    /\ other = NoScanner
    /\ loader = NoLoader

\* #[derive(Clone)] on Lexer (tokens.clone() in tests/lexer.rs): a second
\* scanner with a copy of the buffer, which no call changes, and of the cursor.
\* Taken before the first call it is a second Lexer::new over the same text.
\* born is the number of calls the original had made.
clone ==
    /\ ~other.exists
    /\ other' = [exists |-> TRUE, position |-> position, born |-> Len(trace),
                 trace |-> <<>>]
    /\ UNCHANGED <<buffer, position, last, trace, loader>>

\* next on the clone as it would be if the clone shared the original's cursor.
other_next_shared_cursor ==
    /\ other.exists
    /\ Len(other.trace) < MaxCloneCalls
    /\ LET step == next_step(buffer, position)
       IN  /\ other' = [other EXCEPT
                          !.position = step.after,
                          !.trace = Append(@, [before |-> position,
                                               start |-> step.start,
                                               after |-> step.after,
                                               tag |-> step.tag,
                                               token |-> step.token,
                                               err |-> step.err])]
           /\ position' = step.after
    /\ UNCHANGED <<buffer, last, trace, loader>>

\* One call of next on the second scanner: it reads and moves its own cursor.
other_next ==
    /\ other.exists
    /\ Len(other.trace) < MaxCloneCalls
    /\ LET step == next_step(buffer, other.position)
       IN  other' = [other EXCEPT
                       !.position = step.after,
                       !.trace = Append(@, [before |-> other.position,
                                            start |-> step.start,
                                            after |-> step.after,
                                            tag |-> step.tag,
                                            token |-> step.token,
                                            err |-> step.err])]
    /\ UNCHANGED <<buffer, position, last, trace, loader>>

NextClone == next \/ clone \/ other_next

SpecClone == InitClone /\ [][NextClone]_vars

\* ------------------------------------------------------------ Lexer::from_file
\* loader follows one call of from_file over a file whose contents do not
\* change during the call and are valid UTF-8: pc is the statement to execute,
\* source_len the length found by the seek to the end, got the number of bytes
\* read_to_end has appended to the local buffer so far.

FileTexts ==
    UNION {[1..n -> Alphabet] : n \in 0..MaxFileLen} \cup HelloTexts \cup ProgramTexts

\* The characters of file that lie wholly within its first n bytes.
Contents(file, n) ==
    LET ks == {k \in 0..Len(file) : ByteLen(SubSeq(file, 1, k)) <= n}
        k == CHOOSE k \in ks : \A j \in ks : j <= k
    IN  SubSeq(file, 1, k)

InitFile ==
    /\ buffer = <<>>
    /\ position = 0
    /\ last = [tag |-> "NoScanner", token |-> NoToken, err |-> ""]
    /\ trace = <<>>
    /\ other = NoScanner
    /\ loader \in [pc : {"open"}, file : FileTexts, source_len : {0}, got : {0}]

\* File::open(file)? succeeded.
file_open ==
    /\ loader.pc = "open"
    /\ loader' = [loader EXCEPT !.pc = "seek_end"]
    /\ UNCHANGED <<buffer, position, last, trace, other>>

\* let source_len = source.seek(SeekFrom::End(0))? succeeded.
seek_end ==
    /\ loader.pc = "seek_end"
    /\ loader' = [loader EXCEPT !.pc = "seek_start",
                                !.source_len = ByteLen(loader.file)]
    /\ UNCHANGED <<buffer, position, last, trace, other>>

\* source.seek(SeekFrom::Start(0))? succeeded.
seek_start ==
    /\ loader.pc = "seek_start"
    /\ loader' = [loader EXCEPT !.pc = "read"]
    /\ UNCHANGED <<buffer, position, last, trace, other>>

\* One read inside source.take(source_len).read_to_end(..): it appends any
\* positive number of bytes up to what the limit leaves.
read_chunk ==
    /\ loader.pc = "read"
    /\ \E n \in 1..(loader.source_len - loader.got) :
          loader' = [loader EXCEPT !.got = @ + n]
    /\ UNCHANGED <<buffer, position, last, trace, other>>

\* Any of the four `?` returns the I/O error: from_file returns Err and no
\* Lexer is constructed.
io_error ==
    /\ loader.pc \in {"open", "seek_end", "seek_start", "read"}
    /\ loader' = [loader EXCEPT !.pc = "failed"]
    /\ UNCHANGED <<buffer, position, last, trace, other>>

\* The return of from_file as it would be if a single read were taken for the
\* whole file: the scanner is built from whatever has been read so far.
from_file_return_after_short_read ==
    /\ loader.pc = "read"
    /\ buffer' = Contents(loader.file, loader.got)
    /\ position' = 0
    /\ last' = [tag |-> "New", token |-> NoToken, err |-> ""]
    /\ loader' = [loader EXCEPT !.pc = "done"]
    /\ UNCHANGED <<trace, other>>

\* read_to_end returns once a read gives 0 bytes, which Take does when its
\* limit is used up; then Lexer::new(buffer) and Ok(scanner).
from_file_return ==
    /\ loader.pc = "read"
    /\ loader.got = loader.source_len
    /\ buffer' = Contents(loader.file, loader.got)
    /\ position' = 0
    /\ last' = [tag |-> "New", token |-> NoToken, err |-> ""]
    /\ loader' = [loader EXCEPT !.pc = "done"]
    /\ UNCHANGED <<trace, other>>

NextFile ==
    \/ file_open
    \/ seek_end
    \/ seek_start
    \/ read_chunk
    \/ io_error
    \/ from_file_return
    \/ next

SpecFile == InitFile /\ [][NextFile]_vars

\* ------------------------------------------------------------- properties

Calls == 1..Len(trace)

\* The character that starts at byte offset b of buf (NoChar when b is the end
\* of the buffer, beyond it, or inside a character).
CharAt(buf, b) ==
    IF \E i \in 1..Len(buf) : ByteOffset(buf, i) = b
    THEN buf[CHOOSE i \in 1..Len(buf) : ByteOffset(buf, i) = b]
    ELSE NoChar

\* The characters of buf from byte offset b on (empty when b is no boundary).
RestAt(buf, b) == IF is_char_boundary(buf, b) THEN SliceFrom(buf, b) ELSE <<>>

\* The longest prefix of s made of characters of set.
RECURSIVE Run(_, _)
Run(s, set) ==
    IF s = <<>> \/ Head(s) \notin set THEN <<>> ELSE <<Head(s)>> \o Run(Tail(s), set)

\* The bytes call i consumed: the whitespace it skipped and the token's span.
Consumed(i) == (trace[i].start - trace[i].before) + (trace[i].after - trace[i].start)

RECURSIVE ConsumedUpTo(_)
ConsumedUpTo(i) == IF i = 0 THEN 0 ELSE Consumed(i) + ConsumedUpTo(i - 1)

\* C1: when the calls of next reach exhaustion (None) without a failure before,
\* the bytes consumed by the tokens and the skipped whitespace add up to the
\* buffer's byte length: the cursor is buffer.len() at exhaustion.
C1_ExhaustionAtBufferEnd ==
    \A i \in Calls :
        (trace[i].tag = "None" /\ \A j \in 1..(i - 1) : trace[j].tag = "Some")
        => /\ trace[i].after = ByteLen(buffer)
           /\ ConsumedUpTo(i) = ByteLen(buffer)

C3_ExhaustionPermanent ==
    \A i \in Calls : \A j \in Calls :
        (i < j /\ trace[i].tag = "None")
        => /\ trace[j].tag = "None"
           /\ trace[j].before = trace[i].after
           /\ trace[j].after = trace[i].after

\* A scanner that yielded a token, reported exhaustion, and was polled three
\* more times.
C3_Witness ==
    \E i \in Calls :
        /\ i > 1
        /\ trace[i - 1].tag = "Some"
        /\ trace[i].tag = "None"
        /\ Len(trace) >= i + 3
        /\ last.tag = "None"

LongKind(ch) ==
    CASE ch = "!" -> "BangEqual" [] ch = "=" -> "EqualEqual"
      [] ch = ">" -> "GreaterEqual" [] ch = "<" -> "LessEqual"

ShortKind(ch) ==
    CASE ch = "!" -> "Bang" [] ch = "=" -> "Equal"
      [] ch = ">" -> "Greater" [] ch = "<" -> "Less"

\* C4: when the character at the cursor is one of ! = > <, next yields the long
\* token and consumes two bytes if the very next character is '=', and the
\* short token and one byte otherwise (any other character, or end of input).
C4_OperatorPairing ==
    \A i \in Calls :
        LET ch == CharAt(buffer, trace[i].start)
        IN  ch \in Ambiguous =>
              IF CharAt(buffer, trace[i].start + 1) = "="
              THEN /\ trace[i].tag = "Some"
                   /\ trace[i].token = Token(LongKind(ch), <<>>)
                   /\ trace[i].after = trace[i].start + 2
              ELSE /\ trace[i].tag = "Some"
                   /\ trace[i].token = Token(ShortKind(ch), <<>>)
                   /\ trace[i].after = trace[i].start + 1

\* C5: when an alphabetic character is at the cursor, the token is decided by
\* the whole maximal alphanumeric run there: the keyword's variant when the run
\* is exactly one of the sixteen reserved words, Identifier(run) otherwise.
C5_KeywordResolution ==
    \A i \in Calls :
        CharAt(buffer, trace[i].start) \in is_alphabetic =>
            LET run == Run(RestAt(buffer, trace[i].start), is_alphanumeric)
            IN  /\ trace[i].tag = "Some"
                /\ trace[i].token =
                     IF \E kw \in keywords : kw[1] = run
                     THEN Token((CHOOSE kw \in keywords : kw[1] = run)[2], <<>>)
                     ELSE Token("Identifier", run)

\* C6: whenever the character at the cursor is '_' or alphabetic, next yields
\* an Identifier or a keyword token, not a scanning failure.
C6_UnderscoreStartsIdentifier ==
    \A i \in Calls :
        CharAt(buffer, trace[i].start) \in ({"_"} \cup is_alphabetic) =>
            /\ trace[i].tag = "Some"
            /\ trace[i].token.kind \in ({"Identifier"} \cup {kw[2] : kw \in keywords})

\* A decimal numeral without its leading zeros.
RECURSIVE Canonical(_)
Canonical(digits) ==
    IF Len(digits) > 1 /\ Head(digits) = "0" THEN Canonical(Tail(digits)) ELSE digits

\* C7: when a decimal digit is at the cursor, next takes the maximal run of
\* digits there; a run whose value is at most 2^63 - 1 yields Number(value) and
\* consumes the run, a larger one fails with the malformed-number failure.
C7_NumberExactOrFailure ==
    \A i \in Calls :
        CharAt(buffer, trace[i].start) \in is_digit =>
            LET run == Run(RestAt(buffer, trace[i].start), is_digit)
            IN  IF NumeralGreater(Canonical(run), I64Max)
                THEN /\ trace[i].tag = "Panic"
                     /\ trace[i].err = "ParseIntError(PosOverflow)"
                ELSE /\ trace[i].tag = "Some"
                     /\ trace[i].token = Token("Number", Canonical(run))
                     /\ trace[i].after = trace[i].start + Len(run)

\* C8: when a double-quote is at the cursor and another one follows it, next
\* yields String(run), run being the characters between the two (of any kind),
\* and advances the cursor by the run's byte length plus two.
C8_TerminatedString ==
    \A i \in Calls :
        LET body == RestAt(buffer, trace[i].start + 1)
            run  == Run(body, Chars \ {"\""})
        IN  (CharAt(buffer, trace[i].start) = "\"" /\ Len(run) < Len(body))
            => /\ trace[i].tag = "Some"
               /\ trace[i].token = Token("String", run)
               /\ trace[i].after = trace[i].start + ByteLen(run) + 2

\* C9: when a double-quote is at the cursor and no other follows before the
\* end of the buffer, the call fails with the unterminated-string failure: it
\* yields no String token and no end of stream.
C9_UnterminatedString ==
    \A i \in Calls :
        LET body == RestAt(buffer, trace[i].start + 1)
        IN  (CharAt(buffer, trace[i].start) = "\"" /\ Run(body, Chars \ {"\""}) = body)
            => /\ trace[i].tag = "Panic"
               /\ trace[i].err = "Unmatched string quotes"

\* C10: in every reachable state the cursor is at most the buffer's byte
\* length, and no call of next (yielding, exhausted or failing) moves it back.
C10_CursorMonotoneBounded ==
    /\ position <= ByteLen(buffer)
    /\ \A i \in Calls :
         /\ trace[i].before <= trace[i].start
         /\ trace[i].start <= trace[i].after
         /\ trace[i].after <= ByteLen(buffer)
         /\ i > 1 => trace[i].before = trace[i - 1].after
         /\ i = Len(trace) => position = trace[i].after

\* In a text with multi-byte characters, a call skipped whitespace and yielded
\* a token that ends the buffer, and a later call reported exhaustion there.
C10_Witness ==
    /\ ByteLen(buffer) > Len(buffer)
    /\ \E i \in Calls :
         /\ trace[i].tag = "Some"
         /\ trace[i].before < trace[i].start
         /\ trace[i].start < trace[i].after
         /\ trace[i].after = ByteLen(buffer)
    /\ position = ByteLen(buffer)
    /\ last.tag = "None"

\* The characters of the buffer that start at a byte offset in [from, to).
CharsIn(from, to) ==
    {k \in 1..Len(buffer) : from <= ByteOffset(buffer, k) /\ ByteOffset(buffer, k) < to}

\* C11: the spans of the yielded tokens are in source order and do not overlap;
\* what lies before a token's span, back to the end of the previous call, is a
\* maximal run of whitespace; no whitespace is inside a token other than a
\* String; and at exhaustion every character that is not whitespace is inside
\* the span of a token.
C11_SpansAndWhitespace ==
    \A i \in Calls :
        /\ trace[i].tag = "Some" =>
             /\ \A j \in 1..(i - 1) :
                  trace[j].tag = "Some" => trace[j].after <= trace[i].start
             /\ \A k \in CharsIn(trace[i].before, trace[i].start) :
                  buffer[k] \in is_whitespace
             /\ CharAt(buffer, trace[i].start) \notin is_whitespace
             /\ trace[i].token.kind # "String" =>
                  \A k \in CharsIn(trace[i].start, trace[i].after) :
                      buffer[k] \notin is_whitespace
        /\ (trace[i].tag = "None" /\ \A j \in 1..(i - 1) : trace[j].tag = "Some") =>
             \A k \in 1..Len(buffer) :
                 buffer[k] \notin is_whitespace =>
                     \E j \in 1..(i - 1) :
                         k \in CharsIn(trace[j].start, trace[j].after)

\* C12: a failing call leaves the cursor at the offending lexeme, having
\* consumed only the whitespace before it, and every later call on the scanner
\* fails at the same place: no token after the failure point is ever yielded.
C12_FailureHaltsProduction ==
    \A i \in Calls :
        trace[i].tag = "Panic" =>
            /\ trace[i].after = trace[i].start
            /\ \A k \in CharsIn(trace[i].before, trace[i].start) :
                 buffer[k] \in is_whitespace
            /\ \A j \in Calls :
                 j > i => /\ trace[j].tag = "Panic"
                          /\ trace[j].start = trace[i].start
                          /\ trace[j].after = trace[i].start

\* After a token and some whitespace a call failed at a character that well
\* formed tokens follow, and the scanner was polled three more times.
C12_Witness ==
    /\ Len(trace) >= 5
    /\ trace[1].tag = "Some"
    /\ trace[2].tag = "Panic"
    /\ trace[2].before < trace[2].start
    /\ Len(buffer) >= 13
    /\ last.tag = "Panic"

\* Whether the classification of call i failed: tokenize_next, run where the
\* call ran it, returned an Err or panicked in a slice.
ClassificationFailed(i) ==
    /\ is_char_boundary(buffer, trace[i].before)
    /\ tokenize_next(buffer, trace[i].start).tag \in {"Err", "Panic"}

\* C13 as stated: every classification failure reaches the caller of next as
\* an explicit failure value (a returned Err), never swallowed, never None and
\* never a token.
C13_FailureIsReturnedValue ==
    \A i \in Calls : ClassificationFailed(i) => trace[i].tag = "Err"

\* C13, amended: every classification failure reaches the caller of next as a
\* panic that carries the failure (the unwrap of the Err, or the panic of the
\* slice): it is never swallowed, never turned into None and never into a token.
C13_FailureSurfacesAsPanic ==
    \A i \in Calls :
        ClassificationFailed(i) =>
            /\ trace[i].tag = "Panic"
            /\ trace[i].err = tokenize_next(buffer, trace[i].start).err
            /\ trace[i].err # ""
            /\ trace[i].token = NoToken

\* The unterminated string `"abc` was scanned and the call failed.
C13_Witness ==
    /\ buffer = <<"\"", "a", "b", "c">>
    /\ last.tag = "Panic"
    /\ last.err = "Unmatched string quotes"

\* The characters a rule of the classifier is meant for: the eleven fixed
\* punctuation characters, the four ambiguous operators, the quote, alphabetic
\* characters, the underscore and the decimal digits.
Recognized ==
    Punctuation \cup Ambiguous \cup {"\"", "_"} \cup is_alphabetic \cup is_digit

\* C14: when the character at the cursor after the whitespace is none of the
\* recognized ones, the call ends in the unrecognized-character failure (raised
\* as the "Unknown token" error, or as the panic of its snippet's slice) and
\* yields no token; and no call ever yields TokenKind::Unknown.
C14_UnrecognizedCharacterFails ==
    \A i \in Calls :
        /\ trace[i].token.kind # "Unknown"
        /\ (/\ CharAt(buffer, trace[i].start) # NoChar
            /\ CharAt(buffer, trace[i].start) \notin Recognized)
           => /\ trace[i].tag = "Panic"
              /\ trace[i].err \in {"Unknown token", SlicePanic}

\* Where the cursor of a scanner is after the calls recorded in tr, having
\* started at from.
CursorAfter(from, tr) == IF tr = <<>> THEN from ELSE tr[Len(tr)].after

C16_FromFileAllOrNothing ==
    /\ loader.pc = "failed" => last.tag = "NoScanner" /\ trace = <<>>
    /\ last.tag # "NoScanner" =>
          /\ loader.pc = "done"
          /\ buffer = loader.file
          /\ trace = <<>> => position = 0
    /\ trace # <<>> => loader.got = ByteLen(loader.file)

\* A file of several bytes, one of them a multi-byte character, was read in
\* full and the returned scanner has yielded its first token.
C16_Witness ==
    /\ loader.pc = "done"
    /\ ByteLen(loader.file) > Len(loader.file)
    /\ Len(loader.file) >= 2
    /\ buffer = loader.file
    /\ Len(trace) = 1
    /\ trace[1].tag = "Some"

\* C17: on every call whose cursor is a character boundary, the character
\* tokenize_next dispatches on is the character that starts at the byte offset
\* where skip_whitespaces stopped and where the sub-scanners slice the buffer,
\* and its lookahead is the character that follows that one.
C17_ClassifierReadsAtCursor ==
    \A i \in Calls :
        is_char_boundary(buffer, trace[i].before) =>
            LET at == CharAt(buffer, trace[i].start)
            IN  /\ chars_nth(buffer, trace[i].start) = at
                /\ at # NoChar =>
                      chars_nth(buffer, trace[i].start + 1)
                          = CharAt(buffer, trace[i].start + len_utf8(at))

\* The calls that took the catch-all arm of tokenize_next: the cursor could be
\* sliced at, and the character dispatched on matched no other arm.
CatchAll(i) ==
    /\ is_char_boundary(buffer, trace[i].before)
    /\ chars_nth(buffer, trace[i].start) # NoChar
    /\ chars_nth(buffer, trace[i].start)
          \notin (Recognized \ {"_"})

\* C18: the snippet of the unrecognized-character failure is the byte window
\* [position, position + 10). With fewer than 10 bytes left from the cursor the
\* window runs past the end of the buffer and the slice panics out of range;
\* with at least 10 left the window is inside the buffer, and the call returns
\* the "Unknown token" error unless the window ends inside a character.
C18_SnippetWindow ==
    \A i \in Calls :
        CatchAll(i) =>
            LET left == ByteLen(buffer) - trace[i].start
            IN  /\ trace[i].tag = "Panic"
                /\ trace[i].after = trace[i].start
                /\ left < SnippetLen => trace[i].err = SlicePanic
                /\ left >= SnippetLen =>
                      /\ trace[i].start + SnippetLen <= ByteLen(buffer)
                      /\ trace[i].err =
                            IF is_char_boundary(buffer, trace[i].start + SnippetLen)
                            THEN "Unknown token" ELSE SlicePanic

\* After a token and whitespace, an unrecognized character with fewer than 10
\* bytes left: the call panicked on the out-of-range snippet.
C18_Witness ==
    \E i \in Calls :
        /\ i > 1
        /\ CatchAll(i)
        /\ trace[i].start > trace[i].before
        /\ CharAt(buffer, trace[i].start) = chars_nth(buffer, trace[i].start)
        /\ ByteLen(buffer) - trace[i].start < SnippetLen
        /\ trace[i].err = SlicePanic

\* C19: when one of the eleven punctuation characters is at the cursor, next
\* yields its fixed variant and advances the cursor by exactly one byte,
\* whatever follows.
C19_FixedPunctuation ==
    \A i \in Calls :
        (/\ is_char_boundary(buffer, trace[i].before)
         /\ CharAt(buffer, trace[i].start) \in Punctuation)
        => /\ trace[i].tag = "Some"
           /\ trace[i].token = Token(SingleKind(CharAt(buffer, trace[i].start)), <<>>)
           /\ trace[i].after = trace[i].start + 1

\* The calls that yielded a token.
Yielded == {i \in Calls : trace[i].tag = "Some"}

\* C20: every call that yields a token advances the cursor by at least one
\* byte, and no more tokens are yielded than the buffer has bytes.
C20_TokensAdvance ==
    /\ \A i \in Yielded : trace[i].after > trace[i].start
    /\ Cardinality(Yielded) <= ByteLen(buffer)

====
